---- MODULE Spec2Model ----
(***************************************************************************)
(* Model of update_sitemap.py: one run of update_sitemap() reads the       *)
(* sitemap, updates every url entry in memory, renders the document to a   *)
(* temporary file in the same directory and moves it over the original.    *)
(* A second run on the output of a successful first run is modelled too.   *)
(*                                                                         *)
(* A text is a sequence of tokens.  The tokens "&", "<", ">" and " " are   *)
(* single characters; every other token ("https://", "yourdomainname.com", *)
(* "page_route", "amp;", "2025-01-15", ...) is a run of ordinary           *)
(* characters that no operation of the program splits.  A text of length 0 *)
(* is the None that ElementTree gives an element without character data.   *)
(***************************************************************************)
EXTENDS Integers, Sequences, FiniteSets, TLC

MaxEntries == 2

----------------------------------------------------------------------------
(* Elements *)

NoElem == [present |-> FALSE, text |-> <<>>]
Elem(t) == [present |-> TRUE, text |-> t]

----------------------------------------------------------------------------
(* Static tables *)

ROUTE_TO_FILE == (<<"/">> :> "templates/index.html")

PRIORITY_MAP == (<<"/">> :> <<"1.0">>) @@ (<<"/", "page_route">> :> <<"0.8">>)

CHANGEFREQ_MAP == (<<"/">> :> <<"weekly">>) @@ (<<"/", "page_route">> :> <<"yearly">>)

----------------------------------------------------------------------------
(* Text functions *)

RECURSIVE Replace(_, _, _)
Replace(s, c, r) ==
  IF s = <<>> THEN <<>>
  ELSE (IF Head(s) = c THEN r ELSE <<Head(s)>>) \o Replace(Tail(s), c, r)

\* a slip: the ampersand is replaced last, so the entities made for > and <
\* are escaped once more
escapeAmpLast(data) ==
  Replace(Replace(Replace(data, ">", <<"&", "gt;">>), "<", <<"&", "lt;">>),
          "&", <<"&", "amp;">>)

escape(data) ==
  Replace(Replace(Replace(data, "&", <<"&", "amp;">>), ">", <<"&", "gt;">>),
          "<", <<"&", "lt;">>)

EntityChar(name) ==
  CASE name = "amp;" -> "&"
    [] name = "lt;" -> "<"
    [] name = "gt;" -> ">"
    [] OTHER -> "?"

RECURSIVE Unescape(_)
Unescape(s) ==
  IF s = <<>> THEN <<>>
  ELSE IF Head(s) = "&" /\ Len(s) >= 2
       THEN <<EntityChar(s[2])>> \o Unescape(Tail(Tail(s)))
       ELSE <<Head(s)>> \o Unescape(Tail(s))

RECURSIVE LStrip(_)
LStrip(s) == IF s # <<>> /\ Head(s) = " " THEN LStrip(Tail(s)) ELSE s

RECURSIVE RStrip(_)
RStrip(s) ==
  IF s # <<>> /\ s[Len(s)] = " " THEN RStrip(SubSeq(s, 1, Len(s) - 1)) ELSE s

strip(s) == RStrip(LStrip(s))

Contains(s, c) == \E i \in 1..Len(s) : s[i] = c

RECURSIVE TakeUntil(_, _)
TakeUntil(s, c) ==
  IF s = <<>> \/ Head(s) = c THEN <<>> ELSE <<Head(s)>> \o TakeUntil(Tail(s), c)

RECURSIVE DropThrough(_, _)
DropThrough(s, c) ==
  IF s = <<>> THEN <<>>
  ELSE IF Head(s) = c THEN Tail(s) ELSE DropThrough(Tail(s), c)

\* url_path.split("yourdomainname.com")[1] or "/"
PathOf(url_path) ==
  LET seg == TakeUntil(DropThrough(url_path, "yourdomainname.com"),
                       "yourdomainname.com")
  IN IF seg = <<>> THEN <<"/">> ELSE seg

----------------------------------------------------------------------------
(* Documents: a file is a sequence of chunks, the in-memory tree a sequence *)
(* of url entries.                                                          *)

Chunk(k, loc, lastmod, changefreq, priority) ==
  [kind |-> k, loc |-> loc, lastmod |-> lastmod,
   changefreq |-> changefreq, priority |-> priority]

XmlDecl == Chunk("xmldecl", NoElem, NoElem, NoElem, NoElem)
UrlsetOpen == Chunk("urlset", NoElem, NoElem, NoElem, NoElem)
UrlsetClose == Chunk("/urlset", NoElem, NoElem, NoElem, NoElem)

IsUrl(c) == c.kind = "url"

NoFile == [exists |-> FALSE, content |-> <<>>]
FileOf(c) == [exists |-> TRUE, content |-> c]

Complete(content) ==
  /\ Len(content) >= 3
  /\ content[1] = XmlDecl
  /\ content[2] = UrlsetOpen
  /\ content[Len(content)] = UrlsetClose
  /\ \A i \in 3..(Len(content) - 1) : IsUrl(content[i])

ParseElem(e) == IF e.present THEN Elem(Unescape(e.text)) ELSE NoElem

ParseUrl(c) ==
  [loc |-> ParseElem(c.loc), lastmod |-> ParseElem(c.lastmod),
   changefreq |-> ParseElem(c.changefreq), priority |-> ParseElem(c.priority)]

\* ET.parse followed by root.findall("sitemap:url")
Parse(content) ==
  LET urls == SelectSeq(content, IsUrl)
  IN [i \in 1..Len(urls) |-> ParseUrl(urls[i])]

\* a slip: an element is emitted whenever it exists, its text empty or not
RenderOptionalAlways(e) ==
  IF e.present THEN Elem(escape(e.text)) ELSE NoElem

RenderOptional(e) ==
  IF e.present /\ e.text # <<>> THEN Elem(escape(e.text)) ELSE NoElem

\* the chunks one iteration of the writing loop appends
RenderUrl(u) ==
  IF ~u.loc.present THEN <<>>
  ELSE <<Chunk("url",
               Elem(IF u.loc.text # <<>> THEN escape(u.loc.text) ELSE <<>>),
               RenderOptional(u.lastmod),
               RenderOptional(u.changefreq),
               RenderOptional(u.priority))>>

RECURSIVE RenderUrls(_)
RenderUrls(doc) ==
  IF doc = <<>> THEN <<>> ELSE RenderUrl(Head(doc)) \o RenderUrls(Tail(doc))

RenderDoc(doc) == <<XmlDecl, UrlsetOpen>> \o RenderUrls(doc) \o <<UrlsetClose>>

----------------------------------------------------------------------------
(* Date resolution *)

GitDate == <<"2025-01-15">>
FsDate == <<"2024-06-01">>
OldDate == <<"2020-02-02">>

GitOutcomes ==
  {"stdout_date", "stdout_empty", "CalledProcessError", "FileNotFoundError",
   "PermissionError"}

\* (date, is_tracked) of get_git_lastmod; raised: the exception is not caught
get_git_lastmod(outcome) ==
  CASE outcome = "stdout_date" ->
         [raised |-> FALSE, date |-> GitDate, is_tracked |-> "True"]
    [] outcome = "stdout_empty" ->
         [raised |-> FALSE, date |-> <<>>, is_tracked |-> "False"]
    [] outcome = "CalledProcessError" ->
         [raised |-> FALSE, date |-> <<>>, is_tracked |-> "False"]
    [] outcome = "FileNotFoundError" ->
         [raised |-> FALSE, date |-> <<>>, is_tracked |-> "None"]
    [] OTHER ->
         [raised |-> TRUE, date |-> <<>>, is_tracked |-> "None"]

get_file_lastmod == FsDate

\* a slip: the filesystem date is taken even when git returned a date
ResolveDateFsAlways(use_fs, outcome) ==
  IF use_fs
  THEN [date |-> get_file_lastmod, source |-> "filesystem", git |-> 0, fs |-> 1]
  ELSE LET g == get_git_lastmod(outcome)
       IN IF g.is_tracked = "False"
          THEN [date |-> get_file_lastmod, source |-> "filesystem (not in git)",
                git |-> 1, fs |-> 1]
          ELSE IF g.is_tracked = "None"
          THEN [date |-> get_file_lastmod,
                source |-> "filesystem (git unavailable)", git |-> 1, fs |-> 1]
          ELSE [date |-> get_file_lastmod, source |-> "git", git |-> 1, fs |-> 1]

\* lines 130-151: the date, the source tag and the lookups made
ResolveDate(use_fs, outcome) ==
  IF use_fs
  THEN [date |-> get_file_lastmod, source |-> "filesystem", git |-> 0, fs |-> 1]
  ELSE LET g == get_git_lastmod(outcome)
       IN IF g.date = <<>>
          THEN IF g.is_tracked = "False"
               THEN [date |-> get_file_lastmod,
                     source |-> "filesystem (not in git)", git |-> 1, fs |-> 1]
               ELSE IF g.is_tracked = "None"
               THEN [date |-> get_file_lastmod,
                     source |-> "filesystem (git unavailable)",
                     git |-> 1, fs |-> 1]
               ELSE [date |-> get_file_lastmod, source |-> "filesystem",
                     git |-> 1, fs |-> 1]
          ELSE [date |-> g.date, source |-> "git", git |-> 1, fs |-> 0]

----------------------------------------------------------------------------
(* Field updates *)

\* a slip: every overwrite of lastmod is counted
LastmodIncrementAlways(elem, date) == 1

LastmodIncrement(elem, date) ==
  IF elem.present THEN (IF elem.text # date THEN 1 ELSE 0) ELSE 1

\* a slip: an existing value is kept
TableUpdateCreateOnly(elem, path, table) ==
  IF path \in DOMAIN table /\ ~elem.present THEN Elem(table[path]) ELSE elem

TableUpdate(elem, path, table) ==
  IF path \in DOMAIN table THEN Elem(table[path]) ELSE elem

\* a slip: an overwrite is counted like a creation
TableIncrementAlways(elem, path, table) ==
  IF path \in DOMAIN table THEN 1 ELSE 0

TableIncrement(elem, path, table) ==
  IF ~elem.present /\ path \in DOMAIN table THEN 1 ELSE 0

----------------------------------------------------------------------------
(* Input documents *)

LocRoot == <<"https://", "yourdomainname.com", "/">>
LocBare == <<"https://", "yourdomainname.com">>
LocPadded == <<" ", "https://", "yourdomainname.com", "/", " ">>
LocPage == <<"https://", "yourdomainname.com", "/", "page_route">>
LocAmp == <<"https://", "yourdomainname.com", "/", "a", "&", "amp;", "b">>
LocForeign == <<"https://", "example.org", "/", "&", "lt;">>

\* the url blocks an input sitemap is made of, as they stand in the file
UrlKinds ==
  { Chunk("url", NoElem, Elem(OldDate), NoElem, NoElem),
    Chunk("url", Elem(<<>>), NoElem, NoElem, NoElem),
    Chunk("url", Elem(LocRoot), NoElem, NoElem, NoElem),
    Chunk("url", Elem(LocRoot), Elem(OldDate), Elem(<<"daily">>), Elem(<<"0.5">>)),
    Chunk("url", Elem(LocBare), Elem(GitDate), Elem(<<"weekly">>), Elem(<<"1.0">>)),
    Chunk("url", Elem(LocPadded), Elem(<<>>), NoElem, NoElem),
    Chunk("url", Elem(LocRoot), Elem(FsDate), NoElem, Elem(<<"1.0">>)),
    Chunk("url", Elem(LocPage), NoElem, NoElem, Elem(<<"0.5">>)),
    Chunk("url", Elem(LocAmp), Elem(<<>>), Elem(<<"daily">>), NoElem),
    Chunk("url", Elem(LocForeign), Elem(OldDate), NoElem, NoElem),
    Chunk("url", Elem(<<" ">>), NoElem, NoElem, NoElem) }

InputFiles ==
  { FileOf(<<XmlDecl, UrlsetOpen>> \o urls \o <<UrlsetClose>>) :
      urls \in UNION { [1..n -> UrlKinds] : n \in 0..MaxEntries } }

----------------------------------------------------------------------------
(* State *)

VARIABLES
  target,          \* the file at sitemap_path
  tmp,             \* the NamedTemporaryFile in the same directory
  pc,              \* position in update_sitemap
  root,            \* the parsed tree: the url entries, in document order
  idx,             \* the entry the current loop is at
  updated_count,
  warnings,        \* per entry: warnings printed for it
  gitCalls,        \* per entry: calls of get_git_lastmod
  fsCalls,         \* per entry: calls of get_file_lastmod
  sources,         \* per entry: the source tag logged
  counts,          \* per entry: updated_count after the entry's iteration
  use_filesystem,
  gitOutcome,      \* what the git invocation does in this environment
  run,             \* 1: first run, 2: the run on the first run's output
  orig,            \* content of the target when the run started
  input,           \* the tree as parsed, before any update
  first            \* content written and counter reported by the first run

vars == <<target, tmp, pc, root, idx, updated_count, warnings, gitCalls,
          fsCalls, sources, counts, use_filesystem, gitOutcome, run, orig,
          input, first>>

env == <<use_filesystem, gitOutcome>>
history == <<run, orig, input, first>>
perEntry == <<warnings, gitCalls, fsCalls, sources, counts>>

Zeros(n) == [i \in 1..n |-> 0]

Init ==
  /\ target \in InputFiles \cup {NoFile}
  /\ tmp = NoFile
  /\ pc = "start"
  /\ root = <<>>
  /\ idx = 1
  /\ updated_count = 0
  /\ warnings = <<>>
  /\ gitCalls = <<>>
  /\ fsCalls = <<>>
  /\ sources = <<>>
  /\ counts = <<>>
  /\ use_filesystem \in BOOLEAN
  /\ gitOutcome \in GitOutcomes
  /\ run = 1
  /\ orig = target.content
  /\ input = <<>>
  /\ first = [content |-> <<>>, count |-> 0]

----------------------------------------------------------------------------
(* update_sitemap: reading *)

\* lines 96-98: sys.exit(1)
MissingSitemap ==
  /\ pc = "start"
  /\ ~target.exists
  /\ pc' = "exit_missing"
  /\ UNCHANGED <<target, tmp, root, idx, updated_count, perEntry, env, history>>

\* lines 100-107
ParseSitemap ==
  /\ pc = "start"
  /\ target.exists
  /\ root' = Parse(target.content)
  /\ input' = root'
  /\ idx' = 1
  /\ updated_count' = 0
  /\ warnings' = Zeros(Len(root'))
  /\ gitCalls' = Zeros(Len(root'))
  /\ fsCalls' = Zeros(Len(root'))
  /\ sources' = [i \in 1..Len(root') |-> "none"]
  /\ counts' = Zeros(Len(root'))
  /\ pc' = "loop"
  /\ UNCHANGED <<target, tmp, env, run, orig, first>>

----------------------------------------------------------------------------
(* update_sitemap: the update loop, lines 110-187 *)

InLoop == pc = "loop" /\ idx <= Len(root)

HasLocText(u) == u.loc.present /\ u.loc.text # <<>>
HasPath(u) == HasLocText(u) /\ Contains(strip(u.loc.text), "yourdomainname.com")
EntryPath(u) == PathOf(strip(u.loc.text))
Unmapped(u) == HasPath(u) /\ EntryPath(u) \notin DOMAIN ROUTE_TO_FILE
Mapped(u) == HasPath(u) /\ EntryPath(u) \in DOMAIN ROUTE_TO_FILE

Advance(count) ==
  /\ counts' = [counts EXCEPT ![idx] = count]
  /\ idx' = idx + 1

\* lines 112-113
SkipNoLoc ==
  /\ InLoop
  /\ ~root[idx].loc.present
  /\ Advance(updated_count)
  /\ UNCHANGED <<target, tmp, pc, root, updated_count, warnings, gitCalls,
                 fsCalls, sources, env, history>>

\* line 115: loc_elem.text is None, .strip() raises AttributeError
EmptyLocRaises ==
  /\ InLoop
  /\ root[idx].loc.present
  /\ root[idx].loc.text = <<>>
  /\ pc' = "crashed"
  /\ UNCHANGED <<target, tmp, root, idx, updated_count, perEntry, env, history>>

\* lines 117-120
SkipOtherDomain ==
  /\ InLoop
  /\ HasLocText(root[idx])
  /\ ~HasPath(root[idx])
  /\ Advance(updated_count)
  /\ UNCHANGED <<target, tmp, pc, root, updated_count, warnings, gitCalls,
                 fsCalls, sources, env, history>>

\* a slip: the unmapped entry is given the filesystem date
SkipUnmappedTouching ==
  /\ InLoop
  /\ Unmapped(root[idx])
  /\ warnings' = [warnings EXCEPT ![idx] = @ + 1]
  /\ root' = [root EXCEPT ![idx].lastmod = Elem(get_file_lastmod)]
  /\ Advance(updated_count)
  /\ UNCHANGED <<target, tmp, pc, updated_count, gitCalls, fsCalls,
                 sources, env, history>>

\* lines 123-126
SkipUnmapped ==
  /\ InLoop
  /\ Unmapped(root[idx])
  /\ warnings' = [warnings EXCEPT ![idx] = @ + 1]
  /\ Advance(updated_count)
  /\ UNCHANGED <<target, tmp, pc, root, updated_count, gitCalls, fsCalls,
                 sources, env, history>>

\* line 136: subprocess.run raises something get_git_lastmod does not catch
GitRaises ==
  /\ InLoop
  /\ Mapped(root[idx])
  /\ ~use_filesystem
  /\ get_git_lastmod(gitOutcome).raised
  /\ gitCalls' = [gitCalls EXCEPT ![idx] = @ + 1]
  /\ pc' = "crashed"
  /\ UNCHANGED <<target, tmp, root, idx, updated_count, warnings, fsCalls,
                 sources, counts, env, history>>

\* lines 128-187
UpdateEntry ==
  /\ InLoop
  /\ Mapped(root[idx])
  /\ use_filesystem \/ ~get_git_lastmod(gitOutcome).raised
  /\ LET u == root[idx]
         path == EntryPath(u)
         r == ResolveDate(use_filesystem, gitOutcome)
     IN /\ root' = [root EXCEPT ![idx] =
                      [loc |-> u.loc,
                       lastmod |-> Elem(r.date),
                       changefreq |-> TableUpdate(u.changefreq, path, CHANGEFREQ_MAP),
                       priority |-> TableUpdate(u.priority, path, PRIORITY_MAP)]]
        /\ updated_count' = updated_count
                              + LastmodIncrement(u.lastmod, r.date)
                              + TableIncrement(u.priority, path, PRIORITY_MAP)
                              + TableIncrement(u.changefreq, path, CHANGEFREQ_MAP)
        /\ gitCalls' = [gitCalls EXCEPT ![idx] = @ + r.git]
        /\ fsCalls' = [fsCalls EXCEPT ![idx] = @ + r.fs]
        /\ sources' = [sources EXCEPT ![idx] = r.source]
        /\ warnings' = [warnings EXCEPT ![idx] =
                          @ + (IF r.source = "filesystem (not in git)" THEN 1 ELSE 0)]
  /\ Advance(updated_count')
  /\ UNCHANGED <<target, tmp, pc, env, history>>

\* the for loop is exhausted
LoopEnd ==
  /\ pc = "loop"
  /\ idx > Len(root)
  /\ pc' = "create"
  /\ UNCHANGED <<target, tmp, root, idx, updated_count, perEntry, env, history>>

----------------------------------------------------------------------------
(* update_sitemap: persistence, lines 189-239 *)

\* lines 190-197
CreateTmp ==
  /\ pc = "create"
  /\ tmp' = FileOf(<<>>)
  /\ pc' = "header"
  /\ UNCHANGED <<target, root, idx, updated_count, perEntry, env, history>>

\* NamedTemporaryFile raises: nothing was created
CreateTmpFails ==
  /\ pc = "create"
  /\ pc' = "create_failed"
  /\ UNCHANGED <<target, tmp, root, idx, updated_count, perEntry, env, history>>

\* lines 200-201
WriteHeader ==
  /\ pc = "header"
  /\ tmp' = FileOf(tmp.content \o <<XmlDecl, UrlsetOpen>>)
  /\ idx' = 1
  /\ pc' = "body"
  /\ UNCHANGED <<target, root, updated_count, perEntry, env, history>>

\* a slip: the url blocks are written to the sitemap itself
WriteUrlInPlace ==
  /\ pc = "body"
  /\ idx <= Len(root)
  /\ target' = FileOf(<<XmlDecl, UrlsetOpen>> \o RenderUrl(root[idx]))
  /\ idx' = idx + 1
  /\ UNCHANGED <<tmp, pc, root, updated_count, perEntry, env, history>>

\* lines 203-226, one iteration
WriteUrl ==
  /\ pc = "body"
  /\ idx <= Len(root)
  /\ tmp' = FileOf(tmp.content \o RenderUrl(root[idx]))
  /\ idx' = idx + 1
  /\ UNCHANGED <<target, pc, root, updated_count, perEntry, env, history>>

\* line 228
WriteFooter ==
  /\ pc = "body"
  /\ idx > Len(root)
  /\ tmp' = FileOf(tmp.content \o <<UrlsetClose>>)
  /\ pc' = "close"
  /\ UNCHANGED <<target, root, idx, updated_count, perEntry, env, history>>

\* end of the with block: the file is flushed and closed
CloseTmp ==
  /\ pc = "close"
  /\ pc' = "move"
  /\ UNCHANGED <<target, tmp, root, idx, updated_count, perEntry, env, history>>

\* a write or the closing flush raises inside the with block: the context
\* manager closes the file, delete=False keeps it, nothing catches the error
WriteFails ==
  /\ pc \in {"header", "body", "close"}
  /\ pc' = "write_failed"
  /\ UNCHANGED <<target, tmp, root, idx, updated_count, perEntry, env, history>>

\* lines 232-234: shutil.move within one directory is os.rename, which
\* replaces the target in one step
MoveSucceeds ==
  /\ pc = "move"
  /\ target' = FileOf(tmp.content)
  /\ tmp' = NoFile
  /\ pc' = "done"
  /\ UNCHANGED <<root, idx, updated_count, perEntry, env, history>>

\* lines 235-239: the rename raised and left both files as they were; the
\* handler unlinks the temporary file and raises
MoveFails ==
  /\ pc = "move"
  /\ tmp' = NoFile
  /\ pc' = "move_failed"
  /\ UNCHANGED <<target, root, idx, updated_count, perEntry, env, history>>

\* the script is run again on what the first run wrote
SecondRun ==
  /\ pc = "done"
  /\ run = 1
  /\ run' = 2
  /\ first' = [content |-> target.content, count |-> updated_count]
  /\ orig' = target.content
  /\ pc' = "start"
  /\ UNCHANGED <<target, tmp, root, idx, updated_count, perEntry, env, input>>

Next ==
  \/ MissingSitemap
  \/ ParseSitemap
  \/ SkipNoLoc
  \/ EmptyLocRaises
  \/ SkipOtherDomain
  \/ SkipUnmapped
  \/ GitRaises
  \/ UpdateEntry
  \/ LoopEnd
  \/ CreateTmp
  \/ CreateTmpFails
  \/ WriteHeader
  \/ WriteUrl
  \/ WriteFooter
  \/ CloseTmp
  \/ WriteFails
  \/ MoveSucceeds
  \/ MoveFails
  \/ SecondRun

Spec == Init /\ [][Next]_vars

----------------------------------------------------------------------------
(* Properties *)

PersistenceFailed == pc \in {"create_failed", "write_failed", "move_failed"}

HasLoc(u) == u.loc.present

\* the url entries a reader of the sitemap finds
Out == Parse(target.content)

\* position in the output of input entry i (entries without loc are not written)
OutIndex(i) == Cardinality({j \in 1..i : HasLoc(input[j])})

LoopStarted == pc \notin {"start", "exit_missing"}

\* the loop iteration of entry i has completed
Processed(i) == LoopStarted /\ (pc \in {"loop", "crashed"} => idx > i)

Fields == {"lastmod", "changefreq", "priority"}

FieldOf(u, f) ==
  CASE f = "lastmod" -> u.lastmod
    [] f = "changefreq" -> u.changefreq
    [] OTHER -> u.priority

\* C1: on every failure path of the persistence sequence (creating or
\* writing the temporary file, or the move) the sitemap has its pre-run
\* content and no temporary file remains.
AtomicOnFailure ==
  PersistenceFailed => target = FileOf(orig) /\ ~tmp.exists

\* C2: at every moment the sitemap path holds either the complete original
\* document or the complete newly rendered one; partial output exists only
\* in the temporary file.
ReadersSeeWholeDocument ==
  target.exists =>
    /\ Complete(target.content)
    /\ \/ target.content = orig
       \/ pc = "done" /\ target.content = RenderDoc(root)

PartialTmpWhileTargetIntact ==
  /\ pc = "body"
  /\ idx = 2
  /\ tmp.exists
  /\ Len(tmp.content) = 3
  /\ ~Complete(tmp.content)
  /\ target.content = orig
  /\ RenderDoc(root) # orig

\* C3: a second run on the output of a successful first run, with the same
\* mode and the same lookup results, writes the identical document and
\* reports a counter of 0.
Idempotent ==
  (run = 2 /\ pc = "done") =>
    /\ target.content = first.content
    /\ updated_count = 0

SecondRunAfterUpdates ==
  /\ run = 2
  /\ pc = "done"
  /\ first.count >= 3
  /\ Len(root) = MaxEntries
  /\ \E i \in 1..Len(root) : Unmapped(root[i])

\* C4 as stated: the written entries are the input entries, same number,
\* same loc values, same order.
OrderPreserved ==
  pc = "done" =>
    /\ Len(Out) = Len(input)
    /\ \A i \in 1..Len(input) : Out[i].loc = input[i].loc

\* C4 (amended): the loc values written are, in order, the loc values of the
\* input entries that have a loc element; entries without one are not
\* written.
OrderPreservedAmongLocated ==
  pc = "done" =>
    LET kept == SelectSeq(input, HasLoc)
    IN /\ Len(Out) = Len(kept)
       /\ \A i \in 1..Len(kept) : Out[i].loc = kept[i].loc

SkippedAndUpdatedWritten ==
  /\ pc = "done"
  /\ run = 1
  /\ Len(input) = 2
  /\ ~Mapped(input[1])
  /\ HasLoc(input[1])
  /\ Mapped(input[2])
  /\ root[2] # input[2]
  /\ input[1].loc # input[2].loc

\* C5: for a route-mapped entry the lastmod written is the git date exactly
\* when git mode is active and the lookup returns a date; when the lookup
\* returns none it is the filesystem date, tagged by the reason; in
\* filesystem mode it is the filesystem date and git is never invoked.
DateResolutionPolicy ==
  /\ use_filesystem => (LoopStarted => \A i \in 1..Len(gitCalls) : gitCalls[i] = 0)
  /\ pc = "done" =>
       \A i \in 1..Len(input) :
         Mapped(input[i]) =>
           LET written == Out[OutIndex(i)].lastmod
               gitDated == ~use_filesystem /\ gitOutcome = "stdout_date"
           IN /\ written.present
              /\ (written.text = GitDate) <=> gitDated
              /\ gitDated => sources[i] = "git"
              /\ ~gitDated => written.text = FsDate
              /\ use_filesystem => sources[i] = "filesystem"
              /\ (~use_filesystem /\ gitOutcome \in {"stdout_empty", "CalledProcessError"})
                   => sources[i] = "filesystem (not in git)"
              /\ (~use_filesystem /\ gitOutcome = "FileNotFoundError")
                   => sources[i] = "filesystem (git unavailable)"

UntrackedFellBack ==
  /\ pc = "done"
  /\ run = 1
  /\ ~use_filesystem
  /\ gitOutcome = "CalledProcessError"
  /\ \E i \in 1..Len(input) :
       /\ Mapped(input[i])
       /\ sources[i] = "filesystem (not in git)"
       /\ gitCalls[i] = 1
       /\ Out[OutIndex(i)].lastmod.text = FsDate

\* C6: only a missing sitemap and a failed persistence step abort a run;
\* whatever is met while the entries are processed is recovered and the run
\* reaches the persistence step.
OnlyFatalAborts == pc # "crashed"

\* C7: an entry whose path is not in the route table keeps its loc, lastmod,
\* changefreq and priority, gets exactly one warning, leaves the counter
\* alone, causes no date lookup, and the loop goes on after it.
UnmappedUntouched ==
  LoopStarted =>
    \A i \in 1..Len(input) :
      Unmapped(input[i]) =>
        /\ pc = "crashed" => idx # i
        /\ Processed(i) =>
             /\ root[i] = input[i]
             /\ warnings[i] = 1
             /\ gitCalls[i] = 0
             /\ fsCalls[i] = 0
             /\ counts[i] = (IF i = 1 THEN 0 ELSE counts[i - 1])
        /\ pc = "done" =>
             /\ Out[OutIndex(i)].loc = input[i].loc
             /\ \A f \in Fields :
                  FieldOf(Out[OutIndex(i)], f).text = FieldOf(input[i], f).text

UnmappedThenUpdated ==
  /\ pc = "done"
  /\ run = 1
  /\ Len(input) = 2
  /\ Unmapped(input[1])
  /\ input[1].priority.present
  /\ Mapped(input[2])
  /\ counts[2] > 0

\* C8 as stated: every entry whose path has a configured priority or
\* changefreq carries the configured value in the output.
TablesApplied ==
  pc = "done" =>
    \A i \in 1..Len(input) :
      HasPath(input[i]) =>
        LET path == EntryPath(input[i])
            o == Out[OutIndex(i)]
        IN /\ path \in DOMAIN PRIORITY_MAP => o.priority = Elem(PRIORITY_MAP[path])
           /\ path \in DOMAIN CHANGEFREQ_MAP => o.changefreq = Elem(CHANGEFREQ_MAP[path])

\* C8 (amended): every route-mapped entry whose path has a configured
\* priority or changefreq carries the configured value in the output,
\* whether the field was absent or present with another value.
TablesAppliedToMapped ==
  pc = "done" =>
    \A i \in 1..Len(input) :
      Mapped(input[i]) =>
        LET path == EntryPath(input[i])
            o == Out[OutIndex(i)]
        IN /\ path \in DOMAIN PRIORITY_MAP => o.priority = Elem(PRIORITY_MAP[path])
           /\ path \in DOMAIN CHANGEFREQ_MAP => o.changefreq = Elem(CHANGEFREQ_MAP[path])

CreatedAndOverwritten ==
  /\ pc = "done"
  /\ run = 1
  /\ \E i, j \in 1..Len(input) :
       /\ Mapped(input[i])
       /\ ~input[i].priority.present
       /\ ~input[i].changefreq.present
       /\ Mapped(input[j])
       /\ input[j].priority = Elem(<<"0.5">>)
       /\ input[j].changefreq = Elem(<<"daily">>)

Created(i, f) ==
  IF ~FieldOf(input[i], f).present /\ FieldOf(root[i], f).present THEN 1 ELSE 0

LastmodChanged(i) ==
  IF input[i].lastmod.present /\ root[i].lastmod.text # input[i].lastmod.text
  THEN 1 ELSE 0

RECURSIVE FieldUpdates(_)
FieldUpdates(n) ==
  IF n = 0 THEN 0
  ELSE FieldUpdates(n - 1) + Created(n, "lastmod") + Created(n, "priority")
         + Created(n, "changefreq") + LastmodChanged(n)

\* the update loop has run to its end
LoopFinished ==
  pc \in {"create", "header", "body", "close", "move", "done"} \/ PersistenceFailed

LocOnlyRoot == [loc |-> Elem(LocRoot), lastmod |-> NoElem,
                changefreq |-> NoElem, priority |-> NoElem]

\* C9: the reported counter is the number of lastmod, priority and
\* changefreq fields created plus the number of existing lastmod fields
\* whose value changed; overwriting priority or changefreq is not counted.
\* One loc-only entry for "/" with a commit date gives 3.
CounterMeaning ==
  /\ LoopFinished => updated_count = FieldUpdates(Len(input))
  /\ (pc = "done" /\ input = <<LocOnlyRoot>> /\ ~use_filesystem
        /\ gitOutcome = "stdout_date")
       => /\ updated_count = 3
          /\ Out[1] = [loc |-> Elem(LocRoot), lastmod |-> Elem(GitDate),
                       changefreq |-> Elem(<<"weekly">>),
                       priority |-> Elem(<<"1.0">>)]

CountedWithOverwrite ==
  /\ pc = "done"
  /\ run = 1
  /\ Len(input) = 2
  /\ input[1] = LocOnlyRoot
  /\ input[2].priority = Elem(<<"0.5">>)
  /\ Mapped(input[2])
  /\ updated_count = 4

WellFormedUrl(c) ==
  IsUrl(c) =>
    /\ c.loc.present
    /\ c.loc.text # <<>>
    /\ \A f \in Fields : FieldOf(c, f).present => FieldOf(c, f).text # <<>>

\* C10: in every document update_sitemap writes, each url entry has a
\* non-empty loc, and lastmod, changefreq and priority are emitted only with
\* a non-empty value.
OutputInvariant ==
  /\ \A k \in 1..Len(tmp.content) : WellFormedUrl(tmp.content[k])
  /\ (pc = "done" \/ run = 2) =>
       \A k \in 1..Len(target.content) : WellFormedUrl(target.content[k])

EmptyFieldAndNoLocDropped ==
  /\ pc = "done"
  /\ run = 1
  /\ Len(input) = 2
  /\ \E i \in 1..2 : ~HasLoc(input[i])
  /\ \E i \in 1..2 : input[i].lastmod = Elem(<<>>) /\ Unmapped(input[i])
  /\ Len(Out) = 1

====
